---------------------------- MODULE Spec2Model ----------------------------
(***************************************************************************)
(* Model of the OpenSSH private-key container decoder of the ssh-key crate *)
(* (ssh-key/src/private.rs, ssh-key/src/private/dsa.rs).                   *)
(*                                                                         *)
(* PrivateKey::from_openssh is a sequential pipeline over a forward-only   *)
(* byte cursor.  The model keeps the PEM-unwrapped body as a sequence of   *)
(* bytes, the cursor position, the locals of from_openssh, and the memory  *)
(* regions that hold key material, so that the order of the checks, the    *)
(* error that is returned, and the zeroing of private scalars on drop can  *)
(* all be observed.                                                        *)
(*                                                                         *)
(* The byte-level decoders (DecoderExt, CipherAlg, KdfAlg, KdfOptions,     *)
(* Algorithm, MPInt, public::KeyData and the ECDSA, Ed25519 and RSA        *)
(* keypairs) live in files that are not part of the sources at hand; they  *)
(* are modelled from sections 4.1-4.3 and 6 of the specification.          *)
(***************************************************************************)
EXTENDS Integers, Sequences, FiniteSets, TLC

VARIABLES
    build,      \* cargo features of the build: [alloc, ecdsa]
    gen,        \* how the input was produced (never read by the decoder)
    facts,      \* what the input is, worked out from gen (never read either)
    input,      \* the argument of from_openssh: [framed, label, body]
    pc,         \* position inside from_openssh
    pos,        \* bytes of the body consumed by pem_decoder so far
    loc,        \* locals of from_openssh
    result,     \* what from_openssh returned
    mem,        \* memory regions holding key material and comments
    keys,       \* PrivateKey values owned by the caller
    pubs,       \* PublicKey values owned by the caller
    nclones     \* number of clones made so far

vars == <<build, gen, facts, input, pc, pos, loc, result, mem, keys, pubs, nclones>>

---------------------------------------------------------------------------
(* Bounds of the model *)

\* Largest small key count tried besides 0 and 1.
MaxNKeys == 2

\* Number of PrivateKey clones the caller makes.
MaxClones == 1

\* Number of PublicKey projections the caller keeps.
MaxPubs == 1

---------------------------------------------------------------------------
(* Byte strings of the wire format *)

\* b"openssh-key-v1\0"
AUTH_MAGIC == <<111, 112, 101, 110, 115, 115, 104, 45, 107, 101, 121, 45, 118, 49, 0>>

TYPE_LABEL == "OPENSSH PRIVATE KEY"

N_none == <<110, 111, 110, 101>>
N_aes256_ctr == <<97, 101, 115, 50, 53, 54, 45, 99, 116, 114>>
N_bcrypt == <<98, 99, 114, 121, 112, 116>>
N_ssh_dss == <<115, 115, 104, 45, 100, 115, 115>>
N_ssh_ed25519 == <<115, 115, 104, 45, 101, 100, 50, 53, 53, 49, 57>>
N_ssh_rsa == <<115, 115, 104, 45, 114, 115, 97>>
N_ecdsa_sha2 == <<101, 99, 100, 115, 97, 45, 115, 104, 97, 50, 45>>
N_nistp256 == <<110, 105, 115, 116, 112, 50, 53, 54>>
N_nistp384 == <<110, 105, 115, 116, 112, 51, 56, 52>>
N_nistp521 == <<110, 105, 115, 116, 112, 53, 50, 49>>
\* names no decoder recognizes: "rot13", "md5", "ssh-xmss"
N_rot13 == <<114, 111, 116, 49, 51>>
N_md5 == <<109, 100, 53>>
N_ssh_xmss == <<115, 115, 104, 45, 120, 109, 115, 115>>

Curves == {"NistP256", "NistP384", "NistP521"}

CurveName(c) ==
    CASE c = "NistP256" -> N_nistp256
      [] c = "NistP384" -> N_nistp384
      [] c = "NistP521" -> N_nistp521

\* Size of an uncompressed SEC1 point of each curve.
PointSize(c) ==
    CASE c = "NistP256" -> 65
      [] c = "NistP384" -> 97
      [] c = "NistP521" -> 133

Ed25519PublicSize == 32
Ed25519PrivateSize == 64

\* An algorithm identity: a family and, for ECDSA, a curve.
Alg(family, curve) == [family |-> family, curve |-> curve]

---------------------------------------------------------------------------
(* Binary Decoder Protocol (specification 4.1): reads at cursor p of b *)

Ok(v, p) == [ok |-> TRUE, val |-> v, pos |-> p, err |-> "None"]
Err(e, p) == [ok |-> FALSE, val |-> <<>>, pos |-> p, err |-> e]

\* The ? operator: an error returns at once, a value goes on to K.
Try(r, K(_)) == IF r.ok THEN K(r) ELSE r

\* Fixed number of raw bytes.
decode_base64(b, p, n) ==
    IF p + n > Len(b) THEN Err("Length", p)
    ELSE Ok(SubSeq(b, p + 1, p + n), p + n)

\* 4-byte big-endian unsigned integer.
decode_u32(b, p) ==
    IF p + 4 > Len(b) THEN Err("Length", p)
    ELSE Ok(b[p + 1] * 16777216 + b[p + 2] * 65536 + b[p + 3] * 256 + b[p + 4],
            p + 4)

\* Length-prefixed opaque byte string.
decode_byte_vec(b, p) ==
    Try(decode_u32(b, p), LAMBDA l : decode_base64(b, l.pos, l.val))

\* Text validation of a String (UTF-8 well-formedness), from index i on.
RECURSIVE Utf8From(_, _)
Utf8From(s, i) ==
    LET n == Len(s)
        Cont(k) == k <= n /\ s[k] >= 128 /\ s[k] <= 191
        In(k, lo, hi) == k <= n /\ s[k] >= lo /\ s[k] <= hi
    IN  IF i > n THEN TRUE
        ELSE LET c == s[i]
             IN  CASE c <= 127 -> Utf8From(s, i + 1)
                   [] c >= 194 /\ c <= 223 -> Cont(i + 1) /\ Utf8From(s, i + 2)
                   [] c = 224 -> In(i + 1, 160, 191) /\ Cont(i + 2) /\ Utf8From(s, i + 3)
                   [] (c >= 225 /\ c <= 236) \/ c = 238 \/ c = 239 ->
                        Cont(i + 1) /\ Cont(i + 2) /\ Utf8From(s, i + 3)
                   [] c = 237 -> In(i + 1, 128, 159) /\ Cont(i + 2) /\ Utf8From(s, i + 3)
                   [] c = 240 ->
                        In(i + 1, 144, 191) /\ Cont(i + 2) /\ Cont(i + 3) /\ Utf8From(s, i + 4)
                   [] c >= 241 /\ c <= 243 ->
                        Cont(i + 1) /\ Cont(i + 2) /\ Cont(i + 3) /\ Utf8From(s, i + 4)
                   [] c = 244 ->
                        In(i + 1, 128, 143) /\ Cont(i + 2) /\ Cont(i + 3) /\ Utf8From(s, i + 4)
                   [] OTHER -> FALSE

\* Length-prefixed text string.
decode_string(b, p) ==
    Try(decode_byte_vec(b, p),
        LAMBDA r : IF Utf8From(r.val, 1) THEN r ELSE Err("CharacterEncoding", r.pos))

\* n length-prefixed byte strings in a row (sized integers and the like).
RECURSIVE decode_fields(_, _, _)
decode_fields(b, p, n) ==
    IF n = 0 THEN Ok(<<>>, p)
    ELSE Try(decode_byte_vec(b, p),
             LAMBDA h : Try(decode_fields(b, h.pos, n - 1),
                            LAMBDA t : Ok(<<h.val>> \o t.val, t.pos)))

\* A sized integer: a length-prefixed big-endian byte sequence.
MPInt_decode(b, p) == decode_byte_vec(b, p)

---------------------------------------------------------------------------
(* Name decoders *)

CipherAlg_decode(b, p) ==
    Try(decode_string(b, p),
        LAMBDA r : CASE r.val = N_none -> Ok("None", r.pos)
                     [] r.val = N_aes256_ctr -> Ok("Aes256Ctr", r.pos)
                     [] OTHER -> Err("Algorithm", r.pos))

KdfAlg_decode(b, p) ==
    Try(decode_string(b, p),
        LAMBDA r : CASE r.val = N_none -> Ok("None", r.pos)
                     [] r.val = N_bcrypt -> Ok("Bcrypt", r.pos)
                     [] OTHER -> Err("Algorithm", r.pos))

\* Opaque parameter blob.
KdfOptions_decode(b, p) == decode_byte_vec(b, p)

\* Algorithm identifier decoder (specification 4.2 and 6).
Algorithm_decode(b, p) ==
    Try(decode_string(b, p),
        LAMBDA r : CASE r.val = N_ssh_dss -> Ok(Alg("Dsa", "None"), r.pos)
                     [] r.val = N_ssh_ed25519 -> Ok(Alg("Ed25519", "None"), r.pos)
                     [] r.val = N_ssh_rsa -> Ok(Alg("Rsa", "None"), r.pos)
                     [] \E c \in Curves : r.val = N_ecdsa_sha2 \o CurveName(c) ->
                          Ok(Alg("Ecdsa",
                                 CHOOSE c \in Curves : r.val = N_ecdsa_sha2 \o CurveName(c)),
                             r.pos)
                     [] OTHER -> Err("Algorithm", r.pos))

---------------------------------------------------------------------------
(* DSA keypairs (private/dsa.rs) *)

\* p, q, g, y: four sized integers.
DsaPublicKey_decode(b, p) == decode_fields(b, p, 4)

\* impl Decode for DsaPrivateKey: Ok(Self { inner: MPInt::decode(decoder)? })
DsaPrivateKey_decode(b, p) ==
    Try(MPInt_decode(b, p), LAMBDA inner : Ok(<<inner.val>>, inner.pos))

\* impl Decode for DsaKeypair: the public key, then the private key.
DsaKeypair_decode(b, p) ==
    Try(DsaPublicKey_decode(b, p),
        LAMBDA public :
            Try(DsaPrivateKey_decode(b, public.pos),
                LAMBDA private :
                    Ok([public |-> public.val, private |-> private.val], private.pos)))

---------------------------------------------------------------------------
(* ECDSA, Ed25519, RSA keypairs (specification 4.3): public fields, then   *)
(* private fields.                                                         *)

\* Public point, whose size must be that of a known curve.
EcdsaPublicKey_decode(b, p) ==
    Try(decode_byte_vec(b, p),
        LAMBDA r : IF \A c \in Curves : PointSize(c) # Len(r.val)
                   THEN Err("Length", r.pos)
                   ELSE Ok(<<r.val>>, r.pos))

Ed25519PublicKey_decode(b, p) ==
    Try(decode_byte_vec(b, p),
        LAMBDA r : IF Len(r.val) # Ed25519PublicSize
                   THEN Err("Length", r.pos)
                   ELSE Ok(<<r.val>>, r.pos))

Ed25519PrivateKey_decode(b, p) ==
    Try(decode_byte_vec(b, p),
        LAMBDA r : IF Len(r.val) # Ed25519PrivateSize
                   THEN Err("Length", r.pos)
                   ELSE Ok(<<r.val>>, r.pos))

\* n, e: two sized integers.
RsaPublicKey_decode(b, p) == decode_fields(b, p, 2)

\* d, iqmp, p, q: four sized integers.
RsaPrivateKey_decode(b, p) == decode_fields(b, p, 4)

EcdsaKeypair_decode(b, p) ==
    Try(EcdsaPublicKey_decode(b, p),
        LAMBDA public :
            Try(MPInt_decode(b, public.pos),
                LAMBDA private :
                    Ok([public |-> public.val, private |-> <<private.val>>], private.pos)))

Ed25519Keypair_decode(b, p) ==
    Try(Ed25519PublicKey_decode(b, p),
        LAMBDA public :
            Try(Ed25519PrivateKey_decode(b, public.pos),
                LAMBDA private :
                    Ok([public |-> public.val, private |-> private.val], private.pos)))

RsaKeypair_decode(b, p) ==
    Try(RsaPublicKey_decode(b, p),
        LAMBDA public :
            Try(RsaPrivateKey_decode(b, public.pos),
                LAMBDA private :
                    Ok([public |-> public.val, private |-> private.val], private.pos)))

\* The curve an ECDSA keypair derives from its public point.
EcdsaKeypair_curve(keypair) ==
    CHOOSE c \in Curves : PointSize(c) = Len(keypair.public[1])

\* public::KeyData::decode: an algorithm identity, then the public fields of
\* its family.  from_openssh discards the value.
public_KeyData_decode(bld, b, p) ==
    Try(Algorithm_decode(b, p),
        LAMBDA a :
            CASE a.val.family = "Dsa" /\ bld.alloc -> DsaPublicKey_decode(b, a.pos)
              [] a.val.family = "Ecdsa" /\ bld.ecdsa -> EcdsaPublicKey_decode(b, a.pos)
              [] a.val.family = "Ed25519" -> Ed25519PublicKey_decode(b, a.pos)
              [] a.val.family = "Rsa" /\ bld.alloc -> RsaPublicKey_decode(b, a.pos)
              [] OTHER -> Err("Algorithm", a.pos))

---------------------------------------------------------------------------
(* KeypairData (private.rs) *)

\* .map(Self::Dsa) and the like: the keypair wrapped in the variant tag.
Variant(tag, r) ==
    IF r.ok THEN Ok([tag |-> tag, keypair |-> r.val], r.pos) ELSE r

\* A dispatch that trusts the identity token and skips the curve comparison.
KeypairData_decode_unchecked(bld, b, p) ==
    Try(Algorithm_decode(b, p),
        LAMBDA a :
            CASE a.val.family = "Dsa" /\ bld.alloc ->
                   Variant("Dsa", DsaKeypair_decode(b, a.pos))
              [] a.val.family = "Ecdsa" /\ bld.ecdsa ->
                   Variant("Ecdsa", EcdsaKeypair_decode(b, a.pos))
              [] a.val.family = "Ed25519" ->
                   Variant("Ed25519", Ed25519Keypair_decode(b, a.pos))
              [] a.val.family = "Rsa" /\ bld.alloc ->
                   Variant("Rsa", RsaKeypair_decode(b, a.pos))
              [] OTHER -> Err("Algorithm", a.pos))

\* impl Decode for KeypairData: match Algorithm::decode(decoder)? { ... }
KeypairData_decode(bld, b, p) ==
    Try(Algorithm_decode(b, p),
        LAMBDA a :
            CASE a.val.family = "Dsa" /\ bld.alloc ->
                   Variant("Dsa", DsaKeypair_decode(b, a.pos))
              [] a.val.family = "Ecdsa" /\ bld.ecdsa ->
                   Try(EcdsaKeypair_decode(b, a.pos),
                       LAMBDA keypair :
                           IF EcdsaKeypair_curve(keypair.val) = a.val.curve
                           THEN Variant("Ecdsa", keypair)
                           ELSE Err("Algorithm", keypair.pos))
              [] a.val.family = "Ed25519" ->
                   Variant("Ed25519", Ed25519Keypair_decode(b, a.pos))
              [] a.val.family = "Rsa" /\ bld.alloc ->
                   Variant("Rsa", RsaKeypair_decode(b, a.pos))
              [] OTHER -> Err("Algorithm", a.pos))

---------------------------------------------------------------------------
(* Memory.  A value that holds key material owns memory regions; a region  *)
(* keeps its bytes after it is released, so that what a released region    *)
(* still holds can be inspected.  A KeypairData in memory is its variant   *)
(* tag and the regions of its public and its private key.                  *)

Alloc(m, kind, bytes) == Append(m, [kind |-> kind, bytes |-> bytes, live |-> TRUE])

Release(m, id) == [m EXCEPT ![id].live = FALSE]

\* Zeroize: every byte of every field overwritten with zero.
Zeroize(fields) == [i \in DOMAIN fields |-> [j \in DOMAIN fields[i] |-> 0]]

NoKeyData == [tag |-> "None", public |-> 0, private |-> 0]

\* The regions of a freshly decoded KeypairData: Len(m) + 1 and Len(m) + 2.
KeypairData_place(m, kd) ==
    Alloc(Alloc(m, kd.tag \o "PublicKey", kd.keypair.public),
          kd.tag \o "PrivateKey", kd.keypair.private)

\* A drop that forgets to zero the scalar.
DsaPrivateKey_drop_forgetful(m, id) == m

\* impl Drop for DsaPrivateKey: self.inner.zeroize()
DsaPrivateKey_drop(m, id) == [m EXCEPT ![id].bytes = Zeroize(@)]

\* #[derive(Clone)] on DsaPrivateKey: a new region with a copy of the bytes.
DsaPrivateKey_clone(m, id) ==
    [mem |-> Alloc(m, "DsaPrivateKey", m[id].bytes), id |-> Len(m) + 1]

\* Dropping a DsaKeypair: the public key is released; the private key is
\* dropped (Drop::drop) and then released.
DsaKeypair_drop(m, kd) ==
    Release(DsaPrivateKey_drop(Release(m, kd.public), kd.private), kd.private)

\* #[derive(Clone)] on DsaKeypair: both fields cloned.
DsaKeypair_clone(m, kd) ==
    LET private == DsaPrivateKey_clone(Alloc(m, "DsaPublicKey", m[kd.public].bytes),
                                       kd.private)
    IN  [mem |-> private.mem,
         kd |-> [tag |-> "Dsa", public |-> Len(m) + 1, private |-> private.id]]

\* A projection that copies the wrong field of the keypair.
DsaPublicKey_from_private(m, kd) == m[kd.private].bytes

\* impl From<&DsaKeypair> for DsaPublicKey: keypair.public.clone()
DsaPublicKey_from(m, kd) == m[kd.public].bytes

\* Dropping a keypair of another family: the private fields are zeroed, both
\* regions released.
Keypair_drop(m, kd) ==
    Release(Release([m EXCEPT ![kd.private].bytes = Zeroize(@)], kd.private), kd.public)

Keypair_clone(m, kd) ==
    [mem |-> Alloc(Alloc(m, m[kd.public].kind, m[kd.public].bytes),
                   m[kd.private].kind, m[kd.private].bytes),
     kd |-> [tag |-> kd.tag, public |-> Len(m) + 1, private |-> Len(m) + 2]]

\* An introspection that reports one curve for every ECDSA key.
KeypairData_algorithm_fixed(m, kd) ==
    CASE kd.tag = "Dsa" -> Alg("Dsa", "None")
      [] kd.tag = "Ecdsa" -> Alg("Ecdsa", "NistP256")
      [] kd.tag = "Ed25519" -> Alg("Ed25519", "None")
      [] kd.tag = "Rsa" -> Alg("Rsa", "None")

\* KeypairData::algorithm
KeypairData_algorithm(m, kd) ==
    CASE kd.tag = "Dsa" -> Alg("Dsa", "None")
      [] kd.tag = "Ecdsa" -> Alg("Ecdsa", EcdsaKeypair_curve([public |-> m[kd.public].bytes]))
      [] kd.tag = "Ed25519" -> Alg("Ed25519", "None")
      [] kd.tag = "Rsa" -> Alg("Rsa", "None")

\* Dropping a KeypairData drops the keypair of its variant.
KeypairData_drop(m, kd) ==
    IF kd.tag = "Dsa" THEN DsaKeypair_drop(m, kd) ELSE Keypair_drop(m, kd)

\* #[derive(Clone)] on KeypairData.
KeypairData_clone(m, kd) ==
    IF kd.tag = "Dsa" THEN DsaKeypair_clone(m, kd) ELSE Keypair_clone(m, kd)

\* impl From<&KeypairData> for public::KeyData: the public key of the variant.
public_KeyData_from(m, kd) ==
    IF kd.tag = "Dsa" THEN DsaPublicKey_from(m, kd) ELSE m[kd.public].bytes

---------------------------------------------------------------------------
(* PrivateKey::from_openssh (private.rs), one action per step *)

NoLocals ==
    [cipher_alg |-> "Unset", kdf_alg |-> "Unset", kdf_options |-> <<>>, nkeys |-> 0,
     checkint1 |-> 0, checkint2 |-> 0, key_data |-> NoKeyData]

Pending == [status |-> "Pending", err |-> "None", stage |-> "None"]

\* A return that reports every failure as FormatEncoding.
ReturnErr_recoded(e, p) ==
    /\ pc' = "done"
    /\ result' = [status |-> "Err", err |-> "FormatEncoding", stage |-> pc]
    /\ pos' = p

\* return Err(e), with the cursor where the failing read left it.
ReturnErr(e, p) ==
    /\ pc' = "done"
    /\ result' = [status |-> "Err", err |-> e, stage |-> pc]
    /\ pos' = p

\* A label check that accepts every label.
LabelMatches_any(label) == TRUE

\* pem_decoder.type_label() != Self::TYPE_LABEL
LabelMatches(label) == label = TYPE_LABEL

\* pem::Decoder::new_wrapped(..)?, then the type label check.
PemUnwrap ==
    /\ pc = "pem"
    /\ IF ~input.framed THEN ReturnErr("Pem", pos)
       ELSE IF ~LabelMatches(input.label) THEN ReturnErr("Pem", pos)
       ELSE pc' = "magic" /\ UNCHANGED <<result, pos>>
    /\ UNCHANGED <<build, gen, facts, input, loc, mem, keys, pubs, nclones>>

\* A comparison that leaves the trailing NUL out.
MagicMatches_short(auth_magic) ==
    SubSeq(auth_magic, 1, Len(auth_magic) - 1) = SubSeq(AUTH_MAGIC, 1, Len(AUTH_MAGIC) - 1)

\* auth_magic != Self::AUTH_MAGIC
MagicMatches(auth_magic) == auth_magic = AUTH_MAGIC

\* let mut auth_magic = [0u8; AUTH_MAGIC.len()]; pem_decoder.decode(&mut auth_magic)?
ReadMagic ==
    /\ pc = "magic"
    /\ LET r == decode_base64(input.body, pos, Len(AUTH_MAGIC))
       IN  IF ~r.ok THEN ReturnErr(r.err, r.pos)
           ELSE IF ~MagicMatches(r.val) THEN ReturnErr("FormatEncoding", r.pos)
           ELSE pc' = "cipher" /\ pos' = r.pos /\ UNCHANGED result
    /\ UNCHANGED <<build, gen, facts, input, loc, mem, keys, pubs, nclones>>

\* let cipher_alg = CipherAlg::decode(&mut pem_decoder)?
DecodeCipher ==
    /\ pc = "cipher"
    /\ LET r == CipherAlg_decode(input.body, pos)
       IN  IF ~r.ok THEN ReturnErr(r.err, r.pos) /\ UNCHANGED loc
           ELSE /\ pc' = "kdf" /\ pos' = r.pos /\ UNCHANGED result
                /\ loc' = [loc EXCEPT !.cipher_alg = r.val]
    /\ UNCHANGED <<build, gen, facts, input, mem, keys, pubs, nclones>>

\* let kdf_alg = KdfAlg::decode(&mut pem_decoder)?
DecodeKdf ==
    /\ pc = "kdf"
    /\ LET r == KdfAlg_decode(input.body, pos)
       IN  IF ~r.ok THEN ReturnErr(r.err, r.pos) /\ UNCHANGED loc
           ELSE /\ pc' = "kdfopts" /\ pos' = r.pos /\ UNCHANGED result
                /\ loc' = [loc EXCEPT !.kdf_alg = r.val]
    /\ UNCHANGED <<build, gen, facts, input, mem, keys, pubs, nclones>>

\* let kdf_options = KdfOptions::decode(&mut pem_decoder)?
DecodeKdfOptions ==
    /\ pc = "kdfopts"
    /\ LET r == KdfOptions_decode(input.body, pos)
       IN  IF ~r.ok THEN ReturnErr(r.err, r.pos) /\ UNCHANGED loc
           ELSE /\ pc' = "nkeys" /\ pos' = r.pos /\ UNCHANGED result
                /\ loc' = [loc EXCEPT !.kdf_options = r.val]
    /\ UNCHANGED <<build, gen, facts, input, mem, keys, pubs, nclones>>

\* A key-count check that lets an empty key list through.
NKeysSupported_atmost(nkeys) == nkeys <= 1

\* if nkeys != 1 { return Err(Error::Length) }
NKeysSupported(nkeys) == nkeys = 1

\* let nkeys = pem_decoder.decode_u32()? as usize, then the key-count check.
DecodeNKeys ==
    /\ pc = "nkeys"
    /\ LET r == decode_u32(input.body, pos)
       IN  IF ~r.ok THEN ReturnErr(r.err, r.pos) /\ UNCHANGED loc
           ELSE IF ~NKeysSupported(r.val)
                THEN ReturnErr("Length", r.pos) /\ loc' = [loc EXCEPT !.nkeys = r.val]
           ELSE /\ pc' = "pubkey" /\ pos' = r.pos /\ UNCHANGED result
                /\ loc' = [loc EXCEPT !.nkeys = r.val]
    /\ UNCHANGED <<build, gen, facts, input, mem, keys, pubs, nclones>>

\* for _ in 0..nkeys { let _len = decode_u32()?; let _pubkey = KeyData::decode()?; }
RECURSIVE decode_public_keys(_, _, _, _)
decode_public_keys(bld, b, p, n) ==
    IF n = 0 THEN Ok(<<>>, p)
    ELSE Try(decode_u32(b, p),
             LAMBDA len :
                 Try(public_KeyData_decode(bld, b, len.pos),
                     LAMBDA pubkey : decode_public_keys(bld, b, pubkey.pos, n - 1)))

DecodePublicKeys ==
    /\ pc = "pubkey"
    /\ LET r == decode_public_keys(build, input.body, pos, loc.nkeys)
       IN  IF ~r.ok THEN ReturnErr(r.err, r.pos)
           ELSE pc' = "privlen" /\ pos' = r.pos /\ UNCHANGED result
    /\ UNCHANGED <<build, gen, facts, input, loc, mem, keys, pubs, nclones>>

\* let _len = pem_decoder.decode_u32()? as usize  (the private section length)
DecodePrivateLen ==
    /\ pc = "privlen"
    /\ LET r == decode_u32(input.body, pos)
       IN  IF ~r.ok THEN ReturnErr(r.err, r.pos)
           ELSE pc' = "checkint" /\ pos' = r.pos /\ UNCHANGED result
    /\ UNCHANGED <<build, gen, facts, input, loc, mem, keys, pubs, nclones>>

\* A comparison of the low bytes only.
CheckintsMatch_lowbyte(checkint1, checkint2) == checkint1 % 256 = checkint2 % 256

\* if checkint1 != checkint2 { return Err(Error::FormatEncoding) }
CheckintsMatch(checkint1, checkint2) == checkint1 = checkint2

\* let checkint1 = decode_u32()?; let checkint2 = decode_u32()?; the comparison.
DecodeCheckints ==
    /\ pc = "checkint"
    /\ LET c1 == decode_u32(input.body, pos)
           c2 == decode_u32(input.body, c1.pos)
       IN  IF ~c1.ok THEN ReturnErr(c1.err, c1.pos) /\ UNCHANGED loc
           ELSE IF ~c2.ok
                THEN ReturnErr(c2.err, c2.pos) /\ loc' = [loc EXCEPT !.checkint1 = c1.val]
           ELSE /\ loc' = [loc EXCEPT !.checkint1 = c1.val, !.checkint2 = c2.val]
                /\ IF ~CheckintsMatch(c1.val, c2.val)
                   THEN ReturnErr("FormatEncoding", c2.pos)
                   ELSE pc' = "keypair" /\ pos' = c2.pos /\ UNCHANGED result
    /\ UNCHANGED <<build, gen, facts, input, mem, keys, pubs, nclones>>

\* let key_data = KeypairData::decode(&mut pem_decoder)?
DecodeKeypair ==
    /\ pc = "keypair"
    /\ LET r == KeypairData_decode(build, input.body, pos)
       IN  IF ~r.ok THEN ReturnErr(r.err, r.pos) /\ UNCHANGED <<loc, mem>>
           ELSE /\ pc' = "comment" /\ pos' = r.pos /\ UNCHANGED result
                /\ mem' = KeypairData_place(mem, r.val)
                /\ loc' = [loc EXCEPT !.key_data =
                               [tag |-> r.val.tag, public |-> Len(mem) + 1,
                                private |-> Len(mem) + 2]]
    /\ UNCHANGED <<build, gen, facts, input, keys, pubs, nclones>>

\* The PrivateKey of Ok(Self { cipher_alg, kdf_alg, kdf_options, key_data, comment }).
PrivateKey_new(l, comment) ==
    [live |-> TRUE, cipher_alg |-> l.cipher_alg, kdf_alg |-> l.kdf_alg,
     kdf_options |-> l.kdf_options, key_data |-> l.key_data, comment |-> comment]

\* #[cfg(feature = "alloc")] let comment = pem_decoder.decode_string()?; Ok(Self {..})
\* An early return drops the local key_data.
DecodeComment ==
    /\ pc = "comment"
    /\ IF build.alloc
       THEN LET r == decode_string(input.body, pos)
            IN  IF ~r.ok
                THEN /\ ReturnErr(r.err, r.pos)
                     /\ mem' = KeypairData_drop(mem, loc.key_data)
                     /\ UNCHANGED keys
                ELSE /\ pc' = "done" /\ pos' = r.pos
                     /\ result' = [status |-> "Ok", err |-> "None", stage |-> "done"]
                     /\ mem' = Alloc(mem, "String", <<r.val>>)
                     /\ keys' = <<PrivateKey_new(loc, Len(mem) + 1)>>
       ELSE /\ pc' = "done" /\ UNCHANGED <<pos, mem>>
            /\ result' = [status |-> "Ok", err |-> "None", stage |-> "done"]
            /\ keys' = <<PrivateKey_new(loc, 0)>>
    /\ loc' = [loc EXCEPT !.key_data = NoKeyData]
    /\ UNCHANGED <<build, gen, facts, input, pubs, nclones>>

from_openssh ==
    \/ PemUnwrap
    \/ ReadMagic
    \/ DecodeCipher
    \/ DecodeKdf
    \/ DecodeKdfOptions
    \/ DecodeNKeys
    \/ DecodePublicKeys
    \/ DecodePrivateLen
    \/ DecodeCheckints
    \/ DecodeKeypair
    \/ DecodeComment

---------------------------------------------------------------------------
(* What the caller does with a decoded PrivateKey *)

NoKey ==
    [live |-> FALSE, cipher_alg |-> "Unset", kdf_alg |-> "Unset", kdf_options |-> <<>>,
     key_data |-> NoKeyData, comment |-> 0]

NoPublicKey == [live |-> FALSE, key_data |-> [tag |-> "None", public |-> 0], comment |-> 0]

Live(seq) == {i \in DOMAIN seq : seq[i].live}

\* Dropping a PrivateKey drops its key_data and its comment.
PrivateKey_drop(m, k) ==
    IF k.comment = 0 THEN KeypairData_drop(m, k.key_data)
    ELSE Release(KeypairData_drop(m, k.key_data), k.comment)

\* #[derive(Clone)] on PrivateKey.
CloneKey(s) ==
    /\ pc = "done"
    /\ s \in Live(keys)
    /\ nclones < MaxClones
    /\ LET c == KeypairData_clone(mem, keys[s].key_data)
       IN  IF keys[s].comment = 0
           THEN /\ mem' = c.mem
                /\ keys' = Append(keys, [keys[s] EXCEPT !.key_data = c.kd])
           ELSE /\ mem' = Alloc(c.mem, "String", mem[keys[s].comment].bytes)
                /\ keys' = Append(keys, [keys[s] EXCEPT !.key_data = c.kd,
                                                        !.comment = Len(c.mem) + 1])
    /\ nclones' = nclones + 1
    /\ UNCHANGED <<build, gen, facts, input, pc, pos, loc, result, pubs>>

\* The PublicKey { key_data: public::KeyData::from(&self.key_data),
\* comment: self.comment.clone() } of key k, and the memory that holds it.
PrivateKey_public_key(m, k) ==
    LET m1 == Alloc(m, k.key_data.tag \o "PublicKey", public_KeyData_from(m, k.key_data))
    IN  IF k.comment = 0
        THEN [mem |-> m1,
              key |-> [live |-> TRUE,
                       key_data |-> [tag |-> k.key_data.tag, public |-> Len(m) + 1],
                       comment |-> 0]]
        ELSE [mem |-> Alloc(m1, "String", m[k.comment].bytes),
              key |-> [live |-> TRUE,
                       key_data |-> [tag |-> k.key_data.tag, public |-> Len(m) + 1],
                       comment |-> Len(m) + 2]]

\* PrivateKey::public_key(&self), and From<&PrivateKey> for PublicKey.
PublicKeyOf(s) ==
    /\ pc = "done"
    /\ s \in Live(keys)
    /\ Len(pubs) < MaxPubs
    /\ LET r == PrivateKey_public_key(mem, keys[s])
       IN  mem' = r.mem /\ pubs' = Append(pubs, r.key)
    /\ UNCHANGED <<build, gen, facts, input, pc, pos, loc, result, keys, nclones>>

\* From<PrivateKey> for PublicKey: the projection, then the key is dropped.
IntoPublicKey(s) ==
    /\ pc = "done"
    /\ s \in Live(keys)
    /\ Len(pubs) < MaxPubs
    /\ LET r == PrivateKey_public_key(mem, keys[s])
       IN  /\ mem' = PrivateKey_drop(r.mem, keys[s])
           /\ pubs' = Append(pubs, r.key)
    /\ keys' = [keys EXCEPT ![s] = NoKey]
    /\ UNCHANGED <<build, gen, facts, input, pc, pos, loc, result, nclones>>

\* The owner of key s goes out of scope.
DropKey(s) ==
    /\ pc = "done"
    /\ s \in Live(keys)
    /\ mem' = PrivateKey_drop(mem, keys[s])
    /\ keys' = [keys EXCEPT ![s] = NoKey]
    /\ UNCHANGED <<build, gen, facts, input, pc, pos, loc, result, pubs, nclones>>

\* Key t is moved into the place of key s: the old value of s is dropped,
\* the moved value is not.
ReplaceKey(s, t) ==
    /\ pc = "done"
    /\ s \in Live(keys) /\ t \in Live(keys) /\ s # t
    /\ mem' = PrivateKey_drop(mem, keys[s])
    /\ keys' = [keys EXCEPT ![s] = keys[t], ![t] = NoKey]
    /\ UNCHANGED <<build, gen, facts, input, pc, pos, loc, result, pubs, nclones>>

\* The owner of public key q goes out of scope.
DropPublicKey(q) ==
    /\ pc = "done"
    /\ q \in Live(pubs)
    /\ mem' = IF pubs[q].comment = 0 THEN Release(mem, pubs[q].key_data.public)
              ELSE Release(Release(mem, pubs[q].key_data.public), pubs[q].comment)
    /\ pubs' = [pubs EXCEPT ![q] = NoPublicKey]
    /\ UNCHANGED <<build, gen, facts, input, pc, pos, loc, result, keys, nclones>>

Clone == \E s \in DOMAIN keys : CloneKey(s)
Project == \E s \in DOMAIN keys : PublicKeyOf(s)
Convert == \E s \in DOMAIN keys : IntoPublicKey(s)
Drop == \E s \in DOMAIN keys : DropKey(s)
Replace == \E s \in DOMAIN keys, t \in DOMAIN keys : ReplaceKey(s, t)
DropPublic == \E q \in DOMAIN pubs : DropPublicKey(q)

---------------------------------------------------------------------------
(* The inputs: a well-formed container of one algorithm, written out byte  *)
(* by byte, with up to two defects.                                        *)

U32(n) == <<(n \div 16777216) % 256, (n \div 65536) % 256, (n \div 256) % 256, n % 256>>

Str(s) == U32(Len(s)) \o s

RECURSIVE EncodeFields(_)
EncodeFields(fs) == IF fs = <<>> THEN <<>> ELSE Str(Head(fs)) \o EncodeFields(Tail(fs))

TokenOf(a) ==
    CASE a.family = "Dsa" -> N_ssh_dss
      [] a.family = "Ed25519" -> N_ssh_ed25519
      [] a.family = "Rsa" -> N_ssh_rsa
      [] a.family = "Ecdsa" -> N_ecdsa_sha2 \o CurveName(a.curve)

PublicFields(a) ==
    CASE a.family = "Dsa" -> << <<23>>, <<11>>, <<4>>, <<9>> >>
      [] a.family = "Ed25519" -> << [i \in 1..Ed25519PublicSize |-> i] >>
      [] a.family = "Rsa" -> << <<0, 187>>, <<1, 0, 1>> >>
      [] a.family = "Ecdsa" ->
           << [i \in 1..PointSize(a.curve) |-> IF i = 1 THEN 4 ELSE i] >>

PrivateFields(a) ==
    CASE a.family = "Dsa" -> << <<5, 3>> >>
      [] a.family = "Ed25519" -> << [i \in 1..Ed25519PrivateSize |-> 100 + i] >>
      [] a.family = "Rsa" -> << <<7>>, <<2>>, <<17>>, <<13>> >>
      [] a.family = "Ecdsa" -> << <<9, 6>> >>

Algs ==
    {Alg("Dsa", "None"), Alg("Ed25519", "None"), Alg("Rsa", "None"),
     Alg("Ecdsa", "NistP256"), Alg("Ecdsa", "NistP384")}

Builds == [alloc : BOOLEAN, ecdsa : BOOLEAN]

NoCut == [at |-> -1, part |-> 0]

\* The well-formed, unencrypted, single-key container of algorithm a.
Canon(a) ==
    [alg |-> a, framed |-> TRUE, label |-> TYPE_LABEL, magic |-> AUTH_MAGIC,
     cipher |-> N_none, kdf |-> N_none, kdfopts |-> <<>>, nkeys |-> 1,
     publen_off |-> 0, pubtoken |-> TokenOf(a), privlen_off |-> 0,
     check1 |-> 305419896, check2 |-> 305419896, token |-> TokenOf(a),
     comment |-> <<117, 64, 104>>, cut |-> NoCut]

\* Records and keys physically present in the body.
NRecords(g) == IF g.nkeys <= MaxNKeys THEN g.nkeys ELSE 1

Seg(stage, bytes) == [stage |-> stage, bytes |-> bytes]

RECURSIVE Flatten(_)
Flatten(segs) == IF segs = <<>> THEN <<>> ELSE Head(segs).bytes \o Flatten(Tail(segs))

RECURSIVE Repeat(_, _, _)
Repeat(first, rest, n) ==
    IF n = 0 THEN <<>> ELSE first \o Repeat(rest, rest, n - 1)

\* The fields of the body in wire order, each with the step that reads it
\* ("extra": read by no step of a single-key decode).
Segments(g) ==
    LET pubrec == Str(g.pubtoken) \o EncodeFields(PublicFields(g.alg))
        PubRecord(st) ==
            <<Seg(st, U32(Len(pubrec) + g.publen_off)), Seg(st, Str(g.pubtoken)),
              Seg(st, EncodeFields(PublicFields(g.alg)))>>
        Keypair(st1, st2) ==
            <<Seg(st1, Str(g.token)), Seg(st1, EncodeFields(PublicFields(g.alg))),
              Seg(st1, EncodeFields(PrivateFields(g.alg))), Seg(st2, Str(g.comment))>>
        private ==
            <<Seg("checkint", U32(g.check1)), Seg("checkint", U32(g.check2))>>
            \o Repeat(Keypair("keypair", "comment"), Keypair("extra", "extra"), NRecords(g))
            \o <<Seg("extra", <<1, 2, 3>>)>>
    IN  <<Seg("magic", g.magic), Seg("cipher", Str(g.cipher)), Seg("kdf", Str(g.kdf)),
          Seg("kdfopts", Str(g.kdfopts)), Seg("nkeys", U32(g.nkeys))>>
        \o Repeat(PubRecord("pubkey"), PubRecord("extra"), NRecords(g))
        \o <<Seg("privlen", U32(Len(Flatten(private)) + g.privlen_off))>>
        \o private

\* The body: the fields in order, cut short where the input says so.
Body(g) ==
    LET segs == Segments(g)
    IN  IF g.cut.at < 0 \/ g.cut.at >= Len(segs) THEN Flatten(segs)
        ELSE Flatten(SubSeq(segs, 1, g.cut.at))
             \o SubSeq(segs[g.cut.at + 1].bytes, 1, g.cut.part)

InputOf(g) == [framed |-> g.framed, label |-> g.label, body |-> Body(g)]

D(d, n) == [d |-> d, n |-> n]

\* Number of fields of a single-key body.
NSegments == Len(Segments(Canon(Alg("Dsa", "None"))))

\* The defects tried on a container of algorithm a in build bld.  The token
\* of another family is tried where the build leaves that family out, so that
\* the fields that follow it are never taken for the fields of that family.
DefectList(a, bld) ==
    <<D("none", 0), D("unframed", 0), D("label", 0), D("label", 1),
      D("magic", 1), D("magic", Len(AUTH_MAGIC)),
      D("cipher_aes", 0), D("cipher_bogus", 0), D("kdf_bcrypt", 0), D("kdf_bogus", 0),
      D("kdfopts", 0), D("publen", 0), D("pubtoken", 0), D("privlen", 0),
      D("checkint", 0), D("token_bogus", 0), D("comment_text", 0),
      D("nkeys", 0), D("nkeys", 257)>>
    \o [n \in 1..(MaxNKeys - 1) |-> D("nkeys", n + 1)]
    \o [c \in 1..NSegments |-> D("cut", c - 1)]
    \o <<D("cut_mid", 0), D("cut_mid", 4), D("cut_mid", 12)>>
    \o (IF a.family = "Ecdsa" THEN <<D("token_curve", 0)>> ELSE <<>>)
    \o (IF a.family = "Ed25519" /\ ~bld.alloc THEN <<D("token_dss", 0)>> ELSE <<>>)

Defects(a, bld) == {DefectList(a, bld)[i] : i \in DOMAIN DefectList(a, bld)}

OtherCurve(c) == IF c = "NistP256" THEN "NistP384" ELSE "NistP521"

Defect(g, x) ==
    CASE x.d = "none" -> g
      [] x.d = "unframed" -> [g EXCEPT !.framed = FALSE]
      [] x.d = "label" ->
           [g EXCEPT !.label = IF x.n = 0 THEN "RSA PRIVATE KEY" ELSE "OPENSSH PRIVATE KEYS"]
      [] x.d = "magic" -> [g EXCEPT !.magic[x.n] = (@ + 1) % 256]
      [] x.d = "cipher_aes" -> [g EXCEPT !.cipher = N_aes256_ctr]
      [] x.d = "cipher_bogus" -> [g EXCEPT !.cipher = N_rot13]
      [] x.d = "kdf_bcrypt" -> [g EXCEPT !.kdf = N_bcrypt]
      [] x.d = "kdf_bogus" -> [g EXCEPT !.kdf = N_md5]
      [] x.d = "kdfopts" -> [g EXCEPT !.kdfopts = <<0, 0, 0, 1, 42, 0, 0, 0, 16>>]
      [] x.d = "nkeys" -> [g EXCEPT !.nkeys = x.n]
      [] x.d = "publen" -> [g EXCEPT !.publen_off = 1]
      [] x.d = "pubtoken" -> [g EXCEPT !.pubtoken = N_ssh_xmss]
      [] x.d = "privlen" -> [g EXCEPT !.privlen_off = 1]
      [] x.d = "checkint" -> [g EXCEPT !.check2 = g.check1 + 256]
      [] x.d = "token_bogus" -> [g EXCEPT !.token = N_ssh_xmss]
      [] x.d = "token_dss" -> [g EXCEPT !.token = N_ssh_dss]
      [] x.d = "token_curve" ->
           [g EXCEPT !.token = N_ecdsa_sha2 \o CurveName(OtherCurve(g.alg.curve))]
      [] x.d = "comment_text" -> [g EXCEPT !.comment = <<117, 255, 104>>]
      [] x.d = "cut" -> [g EXCEPT !.cut = [at |-> x.n, part |-> 0]]
      [] x.d = "cut_mid" -> [g EXCEPT !.cut = [at |-> x.n, part |-> 2]]

---------------------------------------------------------------------------
(* What the input is, read off the way it was produced *)

Stages ==
    <<"pem", "magic", "cipher", "kdf", "kdfopts", "nkeys", "pubkey", "privlen",
      "checkint", "keypair", "comment">>

StageNo(st) == CHOOSE i \in DOMAIN Stages : Stages[i] = st

AllAlgs == Algs \cup {Alg("Ecdsa", "NistP521")}

KnownToken(t) == \E a \in AllAlgs : TokenOf(a) = t

AlgOfToken(t) == CHOOSE a \in AllAlgs : TokenOf(a) = t

\* The family of a is compiled into the build.
Available(a, bld) ==
    CASE a.family \in {"Dsa", "Rsa"} -> bld.alloc
      [] a.family = "Ecdsa" -> bld.ecdsa
      [] OTHER -> TRUE

F(st, e) == [stage |-> st, err |-> e]

\* Every check of from_openssh that the input violates, with the error that
\* check gives; cut_stages are the steps a field of which the cut removed.
Violations(g, bld, cut_stages) ==
    (IF ~g.framed \/ g.label # TYPE_LABEL THEN {F("pem", "Pem")} ELSE {})
    \cup (IF g.magic # AUTH_MAGIC THEN {F("magic", "FormatEncoding")} ELSE {})
    \cup (IF g.cipher \notin {N_none, N_aes256_ctr} THEN {F("cipher", "Algorithm")} ELSE {})
    \cup (IF g.kdf \notin {N_none, N_bcrypt} THEN {F("kdf", "Algorithm")} ELSE {})
    \cup (IF g.nkeys # 1 THEN {F("nkeys", "Length")} ELSE {})
    \cup (IF ~KnownToken(g.pubtoken) \/ ~Available(g.alg, bld)
          THEN {F("pubkey", "Algorithm")} ELSE {})
    \cup (IF g.check1 # g.check2 THEN {F("checkint", "FormatEncoding")} ELSE {})
    \cup (IF ~KnownToken(g.token) \/ ~Available(AlgOfToken(g.token), bld)
             \/ g.token # TokenOf(g.alg)
          THEN {F("keypair", "Algorithm")} ELSE {})
    \cup (IF bld.alloc /\ (\E i \in DOMAIN g.comment : g.comment[i] = 255)
          THEN {F("comment", "CharacterEncoding")} ELSE {})
    \cup {F(st, "Length") : st \in cut_stages \ (IF bld.alloc THEN {} ELSE {"comment"})}

\* The length of the first i fields together.
RECURSIVE LenUpTo(_, _)
LenUpTo(segs, i) == IF i = 0 THEN 0 ELSE Len(segs[i].bytes) + LenUpTo(segs, i - 1)

\* stage_end: for each step, the offset of the end of the last field it
\* reads, in the uncut body (past the end when the body has no such field);
\* token_end: the offset of the end of the identity token of the keypair.
FactsOf(g, bld) ==
    LET segs == Segments(g)
        n == Len(segs)
        ends == [i \in 0..n |-> LenUpTo(segs, i)]
        End(i) == ends[i]
        Of(st) == {i \in 1..n : segs[i].stage = st}
        Last(st) == CHOOSE i \in Of(st) : \A j \in Of(st) : j <= i
        First(st) == CHOOSE i \in Of(st) : \A j \in Of(st) : i <= j
        cut_stages ==
            IF g.cut.at < 0 THEN {}
            ELSE {segs[i].stage : i \in (g.cut.at + 1)..n} \ {"extra"}
    IN  [stage_end |->
             [st \in {Stages[i] : i \in DOMAIN Stages} |->
                 IF st = "pem" THEN 0
                 ELSE IF Of(st) = {} THEN End(n) + 1
                 ELSE End(Last(st))],
         token_end |-> IF Of("keypair") = {} THEN End(n) + 1 ELSE End(First("keypair")),
         violations |-> Violations(g, bld, cut_stages)]

StageEnd(st) == facts.stage_end[st]

\* The body holds the fields of every step up to and including st in full.
Holds(st) == Len(input.body) >= StageEnd(st)

\* The earliest step with a violated check, and the errors of its checks.
FirstStage ==
    CHOOSE st \in {v.stage : v \in facts.violations} :
        \A v \in facts.violations : StageNo(st) <= StageNo(v.stage)

FirstErrors == {v.err : v \in {w \in facts.violations : w.stage = FirstStage}}

Returned(e) == pc = "done" /\ result.status = "Err" /\ result.err = e

\* The state in which from_openssh is entered with the input made from g.
Start(g, bld) ==
    /\ build = bld
    /\ gen = g
    /\ facts = FactsOf(g, bld)
    /\ input = InputOf(g)
    /\ pc = "pem"
    /\ pos = 0
    /\ loc = NoLocals
    /\ result = Pending
    /\ mem = <<>>
    /\ keys = <<>>
    /\ pubs = <<>>
    /\ nclones = 0

Init ==
    \E a \in Algs, bld \in Builds :
        LET l == DefectList(a, bld)
        IN  \E i \in DOMAIN l :
                \E j \in i..Len(l) :
                    Start(Defect(Defect(Canon(a), l[i]), l[j]), bld)

\* Decoding alone, over containers with up to two defects.
Next == from_openssh

Spec == Init /\ [][Next]_vars

\* The positions of the magic token, each altered alone or with a second one.
MagicDefects ==
    {<<D("magic", i), D("magic", j)>> : i \in 1..Len(AUTH_MAGIC), j \in 1..Len(AUTH_MAGIC)}

InitMagic ==
    \E a \in {Alg("Ed25519", "None"), Alg("Dsa", "None")}, bld \in Builds :
        \/ \E x \in Defects(a, bld) : Start(Defect(Canon(a), x), bld)
        \/ \E mm \in MagicDefects :
               \E x \in {D("none", 0), D("label", 0), D("checkint", 0), D("token_bogus", 0),
                         D("cut", 1), D("cut", 5)}
                        \cup {D("nkeys", n) : n \in 0..MaxNKeys} :
                   Start(Defect(Defect(Defect(Canon(a), mm[1]), mm[2]), x), bld)

\* Decoding alone, over containers whose magic token is altered.
SpecMagic == InitMagic /\ [][Next]_vars

\* Containers that decode, or fail once the keypair is decoded.
InitLife ==
    \E a \in Algs, bld \in Builds :
        \E x \in {D("none", 0), D("comment_text", 0), D("cut", NSegments - 2),
                  D("cut_mid", NSegments - 2), D("cipher_aes", 0), D("kdfopts", 0)} :
            Start(Defect(Canon(a), x), bld)

NextLife ==
    \/ from_openssh
    \/ Clone
    \/ Project
    \/ Convert
    \/ Drop
    \/ Replace
    \/ DropPublic

\* Decoding, then the life of the decoded key.
SpecLife == InitLife /\ [][NextLife]_vars

---------------------------------------------------------------------------
(* C1.  A container whose PEM label and magic are valid and whose cipher,  *)
(* KDF and KDF options decode, but whose key count is not 1, fails with    *)
(* Length whatever follows the key count; the cursor never moves past the  *)
(* key count, so no public-key record, checkint or keypair field is read.  *)

C1_Case ==
    /\ input.framed /\ input.label = TYPE_LABEL
    /\ gen.magic = AUTH_MAGIC
    /\ gen.cipher \in {N_none, N_aes256_ctr}
    /\ gen.kdf \in {N_none, N_bcrypt}
    /\ Holds("nkeys")
    /\ gen.nkeys # 1

\* C1: a key count other than 1 gives Length, and nothing after the key count
\* is read: no public-key record, checkint or keypair field.
C1_KeyCountEnforced ==
    C1_Case =>
        /\ pos <= StageEnd("nkeys")
        /\ pc \in {"pem", "magic", "cipher", "kdf", "kdfopts", "nkeys", "done"}
        /\ loc.checkint1 = 0 /\ loc.checkint2 = 0 /\ loc.key_data = NoKeyData
        /\ mem = <<>> /\ keys = <<>>
        /\ pc = "done" => Returned("Length") /\ result.stage = "nkeys"

\* Key count 2 in front of a private section that is otherwise well formed.
C1_Witness ==
    /\ C1_Case /\ Returned("Length")
    /\ gen.nkeys = 2
    /\ gen.cut = NoCut /\ gen.check1 = gen.check2 /\ gen.token = TokenOf(gen.alg)

---------------------------------------------------------------------------
(* C2.  A container that is well formed up to and including the private    *)
(* section length, with key count 1, whose checkint1 differs from its      *)
(* checkint2, fails with FormatEncoding; the keypair data is not decoded   *)
(* before the comparison.                                                  *)

C2_Case ==
    /\ input.framed /\ input.label = TYPE_LABEL
    /\ gen.magic = AUTH_MAGIC
    /\ gen.cipher \in {N_none, N_aes256_ctr}
    /\ gen.kdf \in {N_none, N_bcrypt}
    /\ gen.nkeys = 1
    /\ gen.pubtoken = TokenOf(gen.alg) /\ Available(gen.alg, build)
    /\ Holds("checkint")
    /\ gen.check1 # gen.check2

\* C2: unequal checkints give FormatEncoding, and the keypair data is not
\* decoded before the comparison.
C2_CheckintEnforced ==
    C2_Case =>
        /\ pos <= StageEnd("checkint")
        /\ pc \notin {"keypair", "comment"}
        /\ loc.key_data = NoKeyData
        /\ mem = <<>> /\ keys = <<>>
        /\ pc = "done" => Returned("FormatEncoding") /\ result.stage = "checkint"

\* Unequal checkints in front of a well-formed keypair and comment.
C2_Witness ==
    /\ C2_Case /\ Returned("FormatEncoding")
    /\ gen.cut = NoCut /\ gen.token = TokenOf(gen.alg)
    /\ gen.comment = Canon(gen.alg).comment

---------------------------------------------------------------------------
(* C3.  An input with the right PEM label whose first Len(AUTH_MAGIC) body *)
(* bytes differ from AUTH_MAGIC in at least one position fails with        *)
(* FormatEncoding, and is never accepted.                                  *)

C3_Case ==
    /\ input.framed /\ input.label = TYPE_LABEL
    /\ Len(input.body) >= Len(AUTH_MAGIC)
    /\ \E i \in 1..Len(AUTH_MAGIC) : input.body[i] # AUTH_MAGIC[i]

\* C3: a body whose compared bytes differ from AUTH_MAGIC in any position is
\* rejected with FormatEncoding and never accepted.
C3_MagicRejected ==
    C3_Case =>
        /\ pc \in {"pem", "magic", "done"}
        /\ pc = "done" => Returned("FormatEncoding") /\ result.stage = "magic"

\* Only the trailing NUL of the magic is altered.
C3_Witness ==
    /\ C3_Case /\ Returned("FormatEncoding")
    /\ SubSeq(input.body, 1, Len(AUTH_MAGIC) - 1) = SubSeq(AUTH_MAGIC, 1, Len(AUTH_MAGIC) - 1)

---------------------------------------------------------------------------
(* C4.  Validly PEM-wrapped text whose type label is not TYPE_LABEL fails  *)
(* with Pem before any body byte is read, whatever the body is.            *)

C4_Case == input.framed /\ input.label # TYPE_LABEL

\* C4: a wrong type label gives Pem with no body byte read, whatever the body.
C4_LabelGate ==
    C4_Case =>
        /\ pos = 0
        /\ pc \in {"pem", "done"}
        /\ loc = NoLocals /\ mem = <<>>
        /\ pc = "done" => Returned("Pem") /\ result.stage = "pem"

\* A wrong label on a body that also has a wrong magic.
C4_Witness == C4_Case /\ Returned("Pem") /\ gen.magic # AUTH_MAGIC

---------------------------------------------------------------------------
(* C5.  Every PrivateKey that from_openssh returns with cipher "none" has  *)
(* KDF "none" and empty KDF options.                                       *)

\* C5: no returned key has cipher "none" with another KDF or with KDF options.
C5_CipherNoneImpliesNoKdf ==
    \A k \in Live(keys) :
        keys[k].cipher_alg = "None" =>
            keys[k].kdf_alg = "None" /\ keys[k].kdf_options = <<>>

---------------------------------------------------------------------------
(* C6.  KeypairData::decode fails with Algorithm, and yields no key, when  *)
(* the identity token is not recognized, when it names a family that the   *)
(* build leaves out, and when it names ECDSA with a curve other than the   *)
(* curve of the decoded ECDSA keypair.                                     *)

\* from_openssh got as far as KeypairData::decode.
C6_Reached == pc = "done" /\ result.stage \in {"keypair", "comment", "done"}

C6_Unrecognized ==
    /\ Len(input.body) >= facts.token_end
    /\ ~KnownToken(gen.token)

C6_Unavailable ==
    /\ Len(input.body) >= facts.token_end
    /\ KnownToken(gen.token)
    /\ ~Available(AlgOfToken(gen.token), build)

C6_CurveMismatch ==
    /\ Holds("keypair")
    /\ KnownToken(gen.token)
    /\ AlgOfToken(gen.token).family = "Ecdsa" /\ build.ecdsa
    /\ gen.alg.family = "Ecdsa"
    /\ AlgOfToken(gen.token).curve # gen.alg.curve

\* C6: in each of the three cases KeypairData::decode gives Algorithm and no
\* key is returned.
C6_AlgorithmGate ==
    C6_Reached /\ (C6_Unrecognized \/ C6_Unavailable \/ C6_CurveMismatch) =>
        /\ Returned("Algorithm") /\ result.stage = "keypair"
        /\ keys = <<>>

\* An ECDSA keypair under the identity token of another curve.
C6_Witness == C6_Reached /\ C6_CurveMismatch /\ Returned("Algorithm")

---------------------------------------------------------------------------
(* C7.  A syntactically valid container with one key and cipher "none"     *)
(* decodes, and the algorithm() of the key is the identity its token       *)
(* names, curve included; the variant is the one of that identity.         *)

C7_Valid ==
    /\ gen.framed /\ gen.label = TYPE_LABEL /\ gen.magic = AUTH_MAGIC
    /\ gen.cipher = N_none /\ gen.kdf \in {N_none, N_bcrypt}
    /\ gen.nkeys = 1
    /\ gen.pubtoken = TokenOf(gen.alg) /\ gen.token = TokenOf(gen.alg)
    /\ gen.check1 = gen.check2
    /\ gen.comment = Canon(gen.alg).comment
    /\ Holds("comment")

C7_Decoded ==
    /\ result.status = "Ok"
    /\ Len(keys) = 1 /\ keys[1].live
    /\ keys[1].key_data.tag = AlgOfToken(gen.token).family
    /\ KeypairData_algorithm(mem, keys[1].key_data) = AlgOfToken(gen.token)

\* C7 as stated: every such container decodes, in every build.
C7_EveryValidContainerDecodes == pc = "done" /\ C7_Valid => C7_Decoded

\* C7 for the families the build includes: such a container decodes, and the
\* algorithm() and the variant of the key are those its token names.
C7_AvailableValidContainerDecodes ==
    pc = "done" /\ C7_Valid /\ Available(gen.alg, build) => C7_Decoded

\* A NistP384 key decoded from its container.
C7_Witness ==
    /\ pc = "done" /\ C7_Valid /\ Available(gen.alg, build) /\ C7_Decoded
    /\ gen.alg = Alg("Ecdsa", "NistP384")

---------------------------------------------------------------------------
(* C8.  Every DsaPrivateKey region, made by decoding or by cloning, holds  *)
(* the scalar while some value owns it and holds only zeros once it is     *)
(* released, on every path, the early return of from_openssh after the     *)
(* keypair was decoded included; zeroing one copy leaves the others as     *)
(* they were.                                                              *)

AllZero(fields) == \A i \in DOMAIN fields : \A j \in DOMAIN fields[i] : fields[i][j] = 0

Scalars == {id \in DOMAIN mem : mem[id].kind = "DsaPrivateKey"}

\* The private-key regions that some value owns.
Owned ==
    {keys[k].key_data.private : k \in Live(keys)}
    \cup (IF loc.key_data.tag = "None" THEN {} ELSE {loc.key_data.private})

\* C8: a DsaPrivateKey region is live exactly while a value owns it, holds the
\* scalar while live, and holds only zeros once released.
C8_ScalarsZeroedOnRelease ==
    \A id \in Scalars :
        /\ mem[id].live <=> id \in Owned
        /\ mem[id].live => mem[id].bytes = PrivateFields(Alg("Dsa", "None"))
        /\ ~mem[id].live => AllZero(mem[id].bytes)
        /\ mem[id].bytes # <<>> /\ \A i \in DOMAIN mem[id].bytes : mem[id].bytes[i] # <<>>

\* One copy dropped and zeroed while another copy is still owned and intact.
C8_Witness ==
    \E a \in Scalars, b \in Scalars :
        /\ ~mem[a].live /\ AllZero(mem[a].bytes)
        /\ mem[b].live /\ mem[b].bytes = PrivateFields(Alg("Dsa", "None"))

\* The early return: the comment fails to decode after the DSA keypair was.
C8_EarlyFailureReached ==
    /\ pc = "done" /\ result.status = "Err" /\ result.stage = "comment"
    /\ \E a \in Scalars : ~mem[a].live /\ AllZero(mem[a].bytes)

---------------------------------------------------------------------------
(* C9.  public_key leaves the PrivateKey as it was, and the PublicKey it   *)
(* returns holds the public fields of the keypair and the comment, in      *)
(* regions of its own that hold no private scalar and stay as they are     *)
(* when the PrivateKey is replaced or dropped.                             *)

CipherOf(name) == IF name = N_none THEN "None" ELSE "Aes256Ctr"

KdfOf(name) == IF name = N_none THEN "None" ELSE "Bcrypt"

Holding(id, kind, bytes) ==
    /\ id \in DOMAIN mem
    /\ mem[id].live /\ mem[id].kind = kind /\ mem[id].bytes = bytes

RegionsOfKey(k) ==
    {k.key_data.public, k.key_data.private} \cup (IF k.comment = 0 THEN {} ELSE {k.comment})

RegionsOfPublicKey(q) ==
    {q.key_data.public} \cup (IF q.comment = 0 THEN {} ELSE {q.comment})

C9_PrivateKeyIntact(k) ==
    /\ k.cipher_alg = CipherOf(gen.cipher)
    /\ k.kdf_alg = KdfOf(gen.kdf)
    /\ k.kdf_options = gen.kdfopts
    /\ k.key_data.tag = gen.alg.family
    /\ Holding(k.key_data.public, gen.alg.family \o "PublicKey", PublicFields(gen.alg))
    /\ Holding(k.key_data.private, gen.alg.family \o "PrivateKey", PrivateFields(gen.alg))
    /\ IF build.alloc THEN Holding(k.comment, "String", <<gen.comment>>) ELSE k.comment = 0

C9_PublicKeyIntact(q) ==
    /\ q.key_data.tag = gen.alg.family
    /\ Holding(q.key_data.public, gen.alg.family \o "PublicKey", PublicFields(gen.alg))
    /\ IF build.alloc THEN Holding(q.comment, "String", <<gen.comment>>) ELSE q.comment = 0
    /\ \A k \in Live(keys) : RegionsOfKey(keys[k]) \cap RegionsOfPublicKey(q) = {}
    /\ \A o \in Live(pubs) :
           pubs[o] # q => RegionsOfPublicKey(pubs[o]) \cap RegionsOfPublicKey(q) = {}

\* C9: every live PrivateKey is as decoded, and every live PublicKey holds the
\* public fields and the comment in regions no other value owns.
C9_ProjectionPure ==
    /\ \A k \in Live(keys) : C9_PrivateKeyIntact(keys[k])
    /\ \A q \in Live(pubs) : C9_PublicKeyIntact(pubs[q])

\* A DSA public key that outlives the key it was projected from.
C9_Witness ==
    /\ gen.alg.family = "Dsa"
    /\ Live(pubs) # {} /\ keys # <<>> /\ Live(keys) = {}
    /\ \E a \in Scalars : ~mem[a].live /\ AllZero(mem[a].bytes)

---------------------------------------------------------------------------
(* C10.  from_openssh checks in one fixed order and returns the error of   *)
(* the first check that fails, as that check gave it; nothing is read      *)
(* after the failing field.                                                *)

C10_FirstFailureReturned ==
    IF facts.violations = {}
    THEN pc = "done" => result.status = "Ok"
    ELSE /\ pos <= StageEnd(FirstStage)
         /\ pc # "done" => StageNo(pc) <= StageNo(FirstStage)
         /\ pc = "done" =>
                /\ result.status = "Err"
                /\ result.stage = FirstStage
                /\ result.err \in FirstErrors
                /\ keys = <<>>

\* The three pairs of violations the order is told by.
C10_Examples ==
    gen.framed /\ gen.label = TYPE_LABEL /\ gen.cut = NoCut /\ pc = "done" =>
        /\ gen.magic # AUTH_MAGIC /\ gen.nkeys = 2 => Returned("FormatEncoding")
        /\ gen.magic = AUTH_MAGIC /\ gen.nkeys = 2 /\ gen.check1 # gen.check2 =>
               Returned("Length")
        /\ gen.magic = AUTH_MAGIC /\ gen.nkeys = 1 /\ gen.check1 # gen.check2
           /\ ~KnownToken(gen.token) /\ Available(gen.alg, build) =>
               Returned("FormatEncoding")

\* C10: the error returned is that of the earliest violated check, in the
\* order of from_openssh, and the three examples of the claim come out so.
C10_FixedOrder == C10_FirstFailureReturned /\ C10_Examples

\* Unequal checkints together with an unrecognized identity token.
C10_Witness ==
    /\ gen.framed /\ gen.label = TYPE_LABEL /\ gen.cut = NoCut
    /\ gen.magic = AUTH_MAGIC /\ gen.nkeys = 1 /\ gen.check1 # gen.check2
    /\ ~KnownToken(gen.token) /\ Available(gen.alg, build)
    /\ Returned("FormatEncoding") /\ result.stage = "checkint"

=============================================================================
